---- MODULE Spec2Model ----
(***************************************************************************)
(* State-machine model of crystal_introspection_control.py: the Singleton  *)
(* decorator, CrystalIntrospectionControl, PublishThread and ControlThread.*)
(*                                                                         *)
(* Granularity: one step per dictionary operation of the source.  The      *)
(* augmented assignment  d[rk][key] += value  is two steps (the read of    *)
(* the bucket and of the old value, then the store into that bucket), as   *)
(* the interpreter may switch threads between them.  Labels are source     *)
(* line numbers ("L103r" = line 103, read half).                           *)
(*                                                                         *)
(* dict.keys() is taken to return a list (a snapshot), as in the Python 2  *)
(* runtime this middleware was written for, so deleting a routing key      *)
(* while looping does not disturb the loop itself.  The order in which a   *)
(* dict lists its keys is left open.                                       *)
(*                                                                         *)
(* A dict object is modelled as [id, m]: id is its identity (a fresh       *)
(* number per dict() call), m its contents.  A store through a reference   *)
(* to a dict that is no longer in the table changes nothing observable.    *)
(*                                                                         *)
(* The tables, threads and metric_list modelled are those of the first     *)
(* CrystalIntrospectionControl object constructed (object 1).              *)
(***************************************************************************)
EXTENDS Integers, Sequences, FiniteSets, TLC

\* ------------------------------------------------------------------ bounds
Callers == {"c1", "c2"}
RoutingKeys == {"a", "b"}
MetricKeys == {"x", "y"}
Deltas == {-1, 0, 1}
Names == {"m1", "m2"}
Values == {"v"}
\* record calls (publish_statefull / publish_stateless) made in a run
MaxCalls == 3
\* publish ticks begun in a run
MaxTicks == 2
\* changes callers make to mappings get_metrics returned
MaxEdits == 2

\* ------------------------------------------------------------- dict helpers
EmptyMap == [k \in {} |-> 0]

\* d[k] = v
Put(d, k, v) == [x \in (DOMAIN d) \cup {k} |-> IF x = k THEN v ELSE d[x]]

\* del d[k]
Del(d, k) == [x \in (DOMAIN d) \ {k} |-> d[x]]

\* dict(): a new, empty dict object with identity i
NewDict(i) == [id |-> i, m |-> EmptyMap]

\* every mapping redis.hgetall("metrics") may return
Tables == UNION {[S -> Values] : S \in SUBSET Names}

VARIABLES
  \* Singleton
  instance,      \* Singleton._instance: 0 = attribute not set, else object id
  constructed,   \* number of CrystalIntrospectionControl objects constructed
  \* callers
  pc,            \* pc[c]: where caller c is ("idle" between calls)
  held,          \* held[c]: the object the last Instance() call returned (0 = none)
  arg,           \* arg[c]: [rk, key, value] of the record call in progress, and
                 \*   pre: the two tables as they were when it was called
  tmp,           \* tmp[c]: [ref, v]: bucket reference and value read by +=
  raised,        \* a record call has raised KeyError
  got,           \* got[c]: [ret, want, after, ref]: what get_metrics returned,
                 \*   the table of the latest completed control tick then,
                 \*   whether ControlThread.run had ended by then, and whether
                 \*   the dict returned is the one metric_list is bound to
                 \*   ("bound"), one replaced since ("stale"), or no call was
                 \*   made ("none")
  \* PublishThread of object 1
  statefull,     \* monitoring_statefull_data: routing key -> dict object
  stateless,     \* monitoring_stateless_data: routing key -> dict object
  nextDict,      \* identity of the next dict object
  ppc,           \* position of PublishThread.run
  pl,            \* its locals: [rks, rk, data, mks, key], and, when data was
                 \*   copied, expect: the recorded sums (acc or rec),
                 \*   idle: quiet[rk], and src: the table, routing key and
                 \*   bucket contents the copy was taken from
  sent,          \* messages handed to basic_publish, in order
  ticks,         \* publish ticks begun
  \* ControlThread of object 1
  cpc,           \* position of ControlThread.run
  metric_list,   \* ControlThread.metric_list
  fetchTmp,      \* value of redis.hgetall(...) before it is assigned
  \* history
  calls,         \* record calls begun
  fetched,       \* every table a completed hgetall returned
  lastTick,      \* table assigned by the latest completed control tick
  edits,         \* changes callers have made to mappings get_metrics returned
  pfail,         \* a broker call of PublishThread.run has raised
  cfail,         \* hgetall has raised in ControlThread.run
  acc,           \* acc[rk][mk]: stateless deltas recorded since rk was last copied
  rec,           \* rec[t][rk][mk]: all deltas recorded in table t
  fresh,         \* fresh[t][rk][mk]: a += for (rk, mk) of table t has stored;
                 \*   for the stateless table, since rk's bucket was last copied
  recOverlap,    \* two record calls have been in progress at the same time
  tickClean,     \* no record call was in progress during the current tick
  instRace,      \* two Instance() calls overlapped
  nz,            \* nz[rk]: the tick that last published rk's stateless bucket
                 \*   with every value nonzero (0 = none)
  quiet          \* quiet[rk]: no publish_stateless(rk) step since rk was copied

vars == <<instance, constructed, pc, held, arg, tmp, raised, got,
          statefull, stateless, nextDict, ppc, pl, sent, ticks,
          cpc, metric_list, fetchTmp,
          calls, fetched, lastTick, edits, pfail, cfail, acc, rec, fresh, recOverlap, tickClean,
          instRace, nz, quiet>>

\* groups for UNCHANGED; pc, raised, tmp, ppc, cpc and the three flags set by
\* Track are always listed on their own
singletonVars == <<instance, constructed, held>>
storeVars == <<statefull, stateless, nextDict>>
publishVars == <<pl, sent, ticks, nz, pfail>>
controlVars == <<metric_list, fetchTmp, fetched, lastTick, got, edits, cfail>>
recordVars == <<calls, acc, rec, quiet, fresh>>

NoArg == [rk |-> "", key |-> "", value |-> 0, pre |-> <<>>]
NoTmp == [ref |-> 0, v |-> 0]
NoSrc == [ph |-> "", rk |-> "", m |-> EmptyMap]
NoLocals == [rks |-> {}, rk |-> "", data |-> EmptyMap, mks |-> {}, key |-> "",
             expect |-> EmptyMap, idle |-> FALSE, src |-> NoSrc]
Zeros == [rk \in RoutingKeys |-> [mk \in MetricKeys |-> 0]]
NoneFresh == [rk \in RoutingKeys |-> [mk \in MetricKeys |-> FALSE]]

\* ------------------------------------------------------------------- Init
\* The process before the first Instance() call: Singleton.__init__ sets
\* only _decorated, so _instance is not set and no object exists.
Init ==
  /\ instance = 0
  /\ constructed = 0
  /\ pc = [c \in Callers |-> "idle"]
  /\ held = [c \in Callers |-> 0]
  /\ arg = [c \in Callers |-> NoArg]
  /\ tmp = [c \in Callers |-> NoTmp]
  /\ raised = FALSE
  /\ got = [c \in Callers |-> [ret |-> EmptyMap, want |-> EmptyMap,
                              after |-> FALSE, ref |-> "none"]]
  /\ statefull = EmptyMap
  /\ stateless = EmptyMap
  /\ nextDict = 1
  /\ ppc = "none"
  /\ pl = NoLocals
  /\ sent = <<>>
  /\ ticks = 0
  /\ cpc = "none"
  /\ metric_list = EmptyMap
  /\ fetchTmp = EmptyMap
  /\ calls = 0
  /\ fetched = {}
  /\ lastTick = EmptyMap
  /\ edits = 0
  /\ pfail = FALSE
  /\ cfail = FALSE
  /\ acc = Zeros
  /\ rec = [t \in {"sf", "sl"} |-> Zeros]
  /\ fresh = [t \in {"sf", "sl"} |-> NoneFresh]
  /\ recOverlap = FALSE
  /\ tickClean = TRUE
  /\ instRace = FALSE
  /\ nz = [rk \in RoutingKeys |-> 0]
  /\ quiet = [rk \in RoutingKeys |-> TRUE]

\* ---------------------------------------------------------------- history
InstancePcs == {"L42", "L42w", "L43"}
RecordPcs == {"sf99", "sf100", "sf101", "sf103r", "sf103w",
              "sl107", "sl108", "sl109", "sl111r", "sl111w"}
InTick(p) == p \notin {"none", "new", "L116", "dead"}

\* number of store operations in progress, given the callers' and the
\* publish thread's positions
Active(pcs, p) ==
  Cardinality({c \in Callers : pcs[c] \in RecordPcs}) + (IF InTick(p) THEN 1 ELSE 0)

\* bookkeeping shared by every step: pcs and p are the positions after it
Track(pcs, p) ==
  /\ recOverlap' = (recOverlap \/ Cardinality({c \in Callers : pcs[c] \in RecordPcs}) > 1)
  /\ instRace' = (instRace \/ Cardinality({c \in Callers : pcs[c] \in InstancePcs}) > 1)
  /\ tickClean' = IF InTick(p)
                    THEN (~InTick(ppc) \/ tickClean) /\ \A c \in Callers : pcs[c] \notin RecordPcs
                    ELSE TRUE

\* ------------------------------------------------------------- Singleton
\* __init__ calling start() on each thread it creates: run() is at its first
\* position when the constructor returns
InitThreadState_started(first) == first

\* CrystalIntrospectionControl.__init__ (lines 58-64): both thread objects
\* are created and marked daemon, start() is not called, and threads_started
\* is set to False.  This is the state a thread is left in; first is the
\* first position of its run().
InitThreadState(first) == "new"

\* a call of caller c returns r, or raises r
Return(c, r) ==
  /\ pc' = [pc EXCEPT ![c] = "idle"]
  /\ raised' = (raised \/ r = "KeyError")
  /\ tmp' = [tmp EXCEPT ![c] = NoTmp]
  /\ arg' = [arg EXCEPT ![c] = NoArg]

\* the test of line 35 never finding an instance: every call constructs
HasInstance_never(inst) == FALSE

\* line 35: `if self._instance:` inside try; inst = 0 stands for the
\* attribute not being set (AttributeError, caught at line 39)
HasInstance(inst) == inst # 0

\* Instance(), lines 33-39: self._instance is read inside try; when the
\* attribute is set the call returns it, otherwise AttributeError is caught.
Instance_35(c) ==
  /\ pc[c] = "idle"
  /\ IF HasInstance(instance)
       THEN /\ held' = [held EXCEPT ![c] = instance]
            /\ Return(c, "instance")
       ELSE /\ pc' = [pc EXCEPT ![c] = "L42"]
            /\ UNCHANGED <<held, raised, tmp, arg>>
  /\ Track(pc', ppc)
  /\ UNCHANGED <<instance, constructed, ppc, cpc>>
  /\ UNCHANGED <<storeVars, publishVars, controlVars, recordVars>>

\* line 42, right-hand side: self._decorated(**args) constructs an object.
\* The first object constructed is object 1, whose threads are modelled.
Instance_42(c) ==
  /\ pc[c] = "L42"
  /\ constructed' = constructed + 1
  /\ tmp' = [tmp EXCEPT ![c] = [ref |-> constructed + 1, v |-> 0]]
  /\ IF constructed = 0
       THEN ppc' = InitThreadState("L116") /\ cpc' = InitThreadState("L159")
       ELSE UNCHANGED <<ppc, cpc>>
  /\ pc' = [pc EXCEPT ![c] = "L42w"]
  /\ Track(pc', ppc')
  /\ UNCHANGED <<instance, held, raised, arg>>
  /\ UNCHANGED <<storeVars, publishVars, controlVars, recordVars>>

\* line 42, the assignment: self._instance = <the new object>
Instance_42w(c) ==
  /\ pc[c] = "L42w"
  /\ instance' = tmp[c].ref
  /\ tmp' = [tmp EXCEPT ![c] = NoTmp]
  /\ pc' = [pc EXCEPT ![c] = "L43"]
  /\ Track(pc', ppc)
  /\ UNCHANGED <<arg, constructed, held, raised, ppc, cpc>>
  /\ UNCHANGED <<storeVars, publishVars, controlVars, recordVars>>

\* line 43: return self._instance (the attribute is read again)
Instance_43(c) ==
  /\ pc[c] = "L43"
  /\ held' = [held EXCEPT ![c] = instance]
  /\ Return(c, "instance")
  /\ Track(pc', ppc)
  /\ UNCHANGED <<instance, constructed, ppc, cpc>>
  /\ UNCHANGED <<storeVars, publishVars, controlVars, recordVars>>

\* ------------------------------------------------------- thread start-up
\* PublishThread and ControlThread subclass threading.Thread (lines 75, 141);
\* run() begins only when a holder of the object calls start() on the thread.
start_publish_thread(c) ==
  /\ pc[c] = "idle"
  /\ held[c] = 1
  /\ ppc = "new"
  /\ ppc' = "L116"
  /\ Track(pc, ppc')
  /\ UNCHANGED <<arg, pc, raised, tmp, cpc>>
  /\ UNCHANGED <<singletonVars, storeVars, publishVars, controlVars, recordVars>>

start_control_thread(c) ==
  /\ pc[c] = "idle"
  /\ held[c] = 1
  /\ cpc = "new"
  /\ cpc' = "L159"
  /\ Track(pc, ppc)
  /\ UNCHANGED <<arg, pc, raised, tmp, ppc>>
  /\ UNCHANGED <<singletonVars, storeVars, publishVars, controlVars, recordVars>>

\* ---------------------------------------------------------- ControlThread
\* the fetched hash merged into the dict already bound (dict.update)
FetchAssign_update(old, new) ==
  [n \in DOMAIN old \cup DOMAIN new |-> IF n \in DOMAIN new THEN new[n] ELSE old[n]]

\* line 159, the assignment: the name metric_list is bound to the new dict
FetchAssign(old, new) == new

\* line 159, right-hand side: redis.hgetall("metrics") returns a mapping
ControlThread_159(t) ==
  /\ cpc = "L159"
  /\ fetchTmp' = t
  /\ fetched' = fetched \cup {t}
  /\ cpc' = "L159w"
  /\ Track(pc, ppc)
  /\ UNCHANGED <<arg, pc, raised, tmp, ppc, metric_list, lastTick, got, edits, cfail>>
  /\ UNCHANGED <<singletonVars, storeVars, publishVars, recordVars>>

\* an exception handler that rebinds metric_list to an empty dict
FetchFailed_clear(old) == EmptyMap

\* line 159 when hgetall raises: the exception leaves the statement before
\* the assignment, so metric_list stays bound to the dict it was bound to
FetchFailed(old) == old

\* line 159: hgetall raises (the store is unreachable); nothing in run()
\* catches it, so run() ends
ControlThread_159_fail ==
  /\ cpc = "L159"
  /\ metric_list' = FetchFailed(metric_list)
  /\ cfail' = TRUE
  /\ cpc' = "dead"
  /\ Track(pc, ppc)
  /\ UNCHANGED <<arg, pc, raised, tmp, ppc, fetchTmp, fetched, lastTick, got, edits>>
  /\ UNCHANGED <<singletonVars, storeVars, publishVars, recordVars>>

\* line 159 binds metric_list to the dict hgetall built, a new object: a
\* dict handed out before is no longer the one metric_list is bound to
Rebound(g) == [g EXCEPT !.ref = IF @ = "bound" THEN "stale" ELSE @]

\* line 159, the assignment, then line 160 (sleep)
ControlThread_159w ==
  /\ cpc = "L159w"
  /\ metric_list' = FetchAssign(metric_list, fetchTmp)
  /\ lastTick' = fetchTmp
  /\ got' = [c \in Callers |-> Rebound(got[c])]
  /\ cpc' = "L159"
  /\ Track(pc, ppc)
  /\ UNCHANGED <<arg, pc, raised, tmp, ppc, fetchTmp, fetched, edits, cfail>>
  /\ UNCHANGED <<singletonVars, storeVars, publishVars, recordVars>>

\* get_metrics (line 67): returns the object metric_list is bound to
get_metrics_result == metric_list

get_metrics(c) ==
  /\ pc[c] = "idle"
  /\ held[c] = 1
  /\ got' = [got EXCEPT ![c] = [ret |-> get_metrics_result, want |-> lastTick,
                                 after |-> cpc = "dead", ref |-> "bound"]]
  /\ Return(c, "metrics")
  /\ Track(pc', ppc)
  /\ UNCHANGED <<ppc, cpc, metric_list, fetchTmp, fetched, lastTick, edits, cfail>>
  /\ UNCHANGED <<singletonVars, storeVars, publishVars, recordVars>>

\* The caller changes the mapping get_metrics returned to it: it sets name n
\* when the mapping lacks it and deletes it otherwise.  Line 67 returns the
\* object itself, so while metric_list is still bound to that object the
\* change is a change of metric_list; a mapping replaced since is the
\* caller's alone.
EditMapping(m, n) == IF n \in DOMAIN m THEN Del(m, n) ELSE Put(m, n, "v")

caller_edits_result(c, n) ==
  /\ pc[c] = "idle"
  /\ held[c] = 1
  /\ got[c].ref # "none"
  /\ edits < MaxEdits
  /\ edits' = edits + 1
  /\ metric_list' = IF got[c].ref = "bound" THEN EditMapping(metric_list, n)
                                              ELSE metric_list
  /\ Track(pc, ppc)
  /\ UNCHANGED <<arg, pc, raised, tmp, ppc, cpc, fetchTmp, fetched, lastTick, got, cfail>>
  /\ UNCHANGED <<singletonVars, storeVars, publishVars, recordVars>>

\* ------------------------------------------------- record calls (97-111)
\* routing_key in table
HasRk(table, rk) == rk \in DOMAIN table

\* key in table[routing_key]
HasKey(table, rk, key) == key \in DOMAIN table[rk].m

\* the test of lines 100 / 108 with its `not` dropped
KeyMissing_inverted(table, rk, key) == HasKey(table, rk, key)

\* lines 100 / 108: `if not key in table[routing_key]`
KeyMissing(table, rk, key) == ~HasKey(table, rk, key)

\* table[routing_key][key] = v
SetItem(table, rk, key, v) ==
  Put(table, rk, [id |-> table[rk].id, m |-> Put(table[rk].m, key, v)])

\* += written as =: the delta replaces the old value
AugAdd_assign(old, value) == value

\* the value += stores: old value plus the delta
AugAdd(old, value) == old + value

\* the store half of +=, through the bucket reference taken by the read half
StoreVia(table, ref, rk, key, v) ==
  IF HasRk(table, rk) /\ table[rk].id = ref THEN SetItem(table, rk, key, v) ELSE table

AddTo(f, rk, key, d) == [f EXCEPT ![rk][key] = @ + d]

\* line 97-98: the call, and the test `not routing_key in ...`
publish_statefull_98(c, rk, key, value) ==
  /\ pc[c] = "idle"
  /\ held[c] = 1
  /\ calls < MaxCalls
  /\ calls' = calls + 1
  /\ arg' = [arg EXCEPT ![c] = [rk |-> rk, key |-> key, value |-> value,
                                 pre |-> <<statefull, stateless>>]]
  /\ pc' = [pc EXCEPT ![c] = IF HasRk(statefull, rk) THEN "sf103r" ELSE "sf99"]
  /\ Track(pc', ppc)
  /\ UNCHANGED <<raised, tmp, ppc, cpc, acc, fresh, rec, quiet>>
  /\ UNCHANGED <<singletonVars, storeVars, publishVars, controlVars>>

\* line 99: table[routing_key] = dict()
publish_statefull_99(c) ==
  /\ pc[c] = "sf99"
  /\ statefull' = Put(statefull, arg[c].rk, NewDict(nextDict))
  /\ nextDict' = nextDict + 1
  /\ pc' = [pc EXCEPT ![c] = "sf100"]
  /\ Track(pc', ppc)
  /\ UNCHANGED <<arg, raised, tmp, ppc, cpc, stateless>>
  /\ UNCHANGED <<singletonVars, publishVars, controlVars, recordVars>>

\* line 100: `if not key in table[routing_key]`
publish_statefull_100(c) ==
  /\ pc[c] = "sf100"
  /\ IF ~HasRk(statefull, arg[c].rk)
       THEN Return(c, "KeyError")
       ELSE /\ pc' = [pc EXCEPT ![c] =
                        IF KeyMissing(statefull, arg[c].rk, arg[c].key) THEN "sf101" ELSE "sf103r"]
            /\ UNCHANGED <<raised, tmp, arg>>
  /\ Track(pc', ppc)
  /\ UNCHANGED <<ppc, cpc>>
  /\ UNCHANGED <<singletonVars, storeVars, publishVars, controlVars, recordVars>>

\* line 101: table[routing_key][key] = 0
publish_statefull_101(c) ==
  /\ pc[c] = "sf101"
  /\ IF ~HasRk(statefull, arg[c].rk)
       THEN Return(c, "KeyError") /\ UNCHANGED statefull
       ELSE /\ statefull' = SetItem(statefull, arg[c].rk, arg[c].key, 0)
            /\ pc' = [pc EXCEPT ![c] = "sf103r"]
            /\ UNCHANGED <<raised, tmp, arg>>
  /\ Track(pc', ppc)
  /\ UNCHANGED <<ppc, cpc, stateless, nextDict>>
  /\ UNCHANGED <<singletonVars, publishVars, controlVars, recordVars>>

\* line 103, read half: table[routing_key], then its [key]
publish_statefull_103r(c) ==
  /\ pc[c] = "sf103r"
  /\ IF HasRk(statefull, arg[c].rk) /\ HasKey(statefull, arg[c].rk, arg[c].key)
       THEN /\ tmp' = [tmp EXCEPT ![c] = [ref |-> statefull[arg[c].rk].id,
                                          v |-> statefull[arg[c].rk].m[arg[c].key]]]
            /\ pc' = [pc EXCEPT ![c] = "sf103w"]
            /\ UNCHANGED <<raised, arg>>
       ELSE Return(c, "KeyError")
  /\ Track(pc', ppc)
  /\ UNCHANGED <<ppc, cpc>>
  /\ UNCHANGED <<singletonVars, storeVars, publishVars, controlVars, recordVars>>

\* line 103, store half; the call returns
publish_statefull_103w(c) ==
  /\ pc[c] = "sf103w"
  /\ statefull' = StoreVia(statefull, tmp[c].ref, arg[c].rk, arg[c].key,
                           AugAdd(tmp[c].v, arg[c].value))
  /\ rec' = [rec EXCEPT !["sf"] = AddTo(@, arg[c].rk, arg[c].key, arg[c].value)]
  /\ fresh' = [fresh EXCEPT !["sf"][arg[c].rk][arg[c].key] = TRUE]
  /\ Return(c, "ok")
  /\ Track(pc', ppc)
  /\ UNCHANGED <<ppc, cpc, stateless, nextDict, calls, acc, quiet>>
  /\ UNCHANGED <<singletonVars, publishVars, controlVars>>

\* line 105-106: the call, and the test `not routing_key in ...`
publish_stateless_106(c, rk, key, value) ==
  /\ pc[c] = "idle"
  /\ held[c] = 1
  /\ calls < MaxCalls
  /\ calls' = calls + 1
  /\ arg' = [arg EXCEPT ![c] = [rk |-> rk, key |-> key, value |-> value,
                                 pre |-> <<statefull, stateless>>]]
  /\ quiet' = [quiet EXCEPT ![rk] = FALSE]
  /\ pc' = [pc EXCEPT ![c] = IF HasRk(stateless, rk) THEN "sl111r" ELSE "sl107"]
  /\ Track(pc', ppc)
  /\ UNCHANGED <<raised, tmp, ppc, cpc, acc, fresh, rec>>
  /\ UNCHANGED <<singletonVars, storeVars, publishVars, controlVars>>

\* line 107: table[routing_key] = dict()
publish_stateless_107(c) ==
  /\ pc[c] = "sl107"
  /\ stateless' = Put(stateless, arg[c].rk, NewDict(nextDict))
  /\ nextDict' = nextDict + 1
  /\ quiet' = [quiet EXCEPT ![arg[c].rk] = FALSE]
  /\ pc' = [pc EXCEPT ![c] = "sl108"]
  /\ Track(pc', ppc)
  /\ UNCHANGED <<arg, raised, tmp, ppc, cpc, statefull, calls, acc, fresh, rec>>
  /\ UNCHANGED <<singletonVars, publishVars, controlVars>>

\* line 108: `if not key in table[routing_key]`
publish_stateless_108(c) ==
  /\ pc[c] = "sl108"
  /\ IF ~HasRk(stateless, arg[c].rk)
       THEN Return(c, "KeyError")
       ELSE /\ pc' = [pc EXCEPT ![c] =
                        IF KeyMissing(stateless, arg[c].rk, arg[c].key) THEN "sl109" ELSE "sl111r"]
            /\ UNCHANGED <<raised, tmp, arg>>
  /\ quiet' = [quiet EXCEPT ![arg[c].rk] = FALSE]
  /\ Track(pc', ppc)
  /\ UNCHANGED <<ppc, cpc, calls, acc, fresh, rec>>
  /\ UNCHANGED <<singletonVars, storeVars, publishVars, controlVars>>

\* line 109: table[routing_key][key] = 0
publish_stateless_109(c) ==
  /\ pc[c] = "sl109"
  /\ IF ~HasRk(stateless, arg[c].rk)
       THEN Return(c, "KeyError") /\ UNCHANGED stateless
       ELSE /\ stateless' = SetItem(stateless, arg[c].rk, arg[c].key, 0)
            /\ pc' = [pc EXCEPT ![c] = "sl111r"]
            /\ UNCHANGED <<raised, tmp, arg>>
  /\ quiet' = [quiet EXCEPT ![arg[c].rk] = FALSE]
  /\ Track(pc', ppc)
  /\ UNCHANGED <<ppc, cpc, statefull, nextDict, calls, acc, fresh, rec>>
  /\ UNCHANGED <<singletonVars, publishVars, controlVars>>

\* line 111, read half: table[routing_key], then its [key]
publish_stateless_111r(c) ==
  /\ pc[c] = "sl111r"
  /\ IF HasRk(stateless, arg[c].rk) /\ HasKey(stateless, arg[c].rk, arg[c].key)
       THEN /\ tmp' = [tmp EXCEPT ![c] = [ref |-> stateless[arg[c].rk].id,
                                          v |-> stateless[arg[c].rk].m[arg[c].key]]]
            /\ pc' = [pc EXCEPT ![c] = "sl111w"]
            /\ UNCHANGED <<raised, arg>>
       ELSE Return(c, "KeyError")
  /\ quiet' = [quiet EXCEPT ![arg[c].rk] = FALSE]
  /\ Track(pc', ppc)
  /\ UNCHANGED <<ppc, cpc, calls, acc, fresh, rec>>
  /\ UNCHANGED <<singletonVars, storeVars, publishVars, controlVars>>

\* line 111, store half; the call returns
publish_stateless_111w(c) ==
  /\ pc[c] = "sl111w"
  /\ stateless' = StoreVia(stateless, tmp[c].ref, arg[c].rk, arg[c].key,
                           AugAdd(tmp[c].v, arg[c].value))
  /\ acc' = AddTo(acc, arg[c].rk, arg[c].key, arg[c].value)
  /\ rec' = [rec EXCEPT !["sl"] = AddTo(@, arg[c].rk, arg[c].key, arg[c].value)]
  /\ quiet' = [quiet EXCEPT ![arg[c].rk] = FALSE]
  /\ fresh' = [fresh EXCEPT !["sl"][arg[c].rk][arg[c].key] = TRUE]
  /\ Return(c, "ok")
  /\ Track(pc', ppc)
  /\ UNCHANGED <<ppc, cpc, statefull, nextDict, calls>>
  /\ UNCHANGED <<singletonVars, publishVars, controlVars>>

\* ---------------------------------------------------- PublishThread.run
\* line 84: self.ip, the only key of every message
Ip == "ip:port"

\* the bucket merged into what data already holds under the sender identity
\* (data[self.ip].update(bucket)) instead of replacing it
DrainCopy_update(data, bucket) ==
  IF Ip \in DOMAIN data
    THEN Put(data, Ip, [mk \in DOMAIN data[Ip] \cup DOMAIN bucket.m |->
                           IF mk \in DOMAIN bucket.m THEN bucket.m[mk] ELSE data[Ip][mk]])
    ELSE Put(data, Ip, bucket.m)

\* lines 121 / 134: data[self.ip] = table[routing_key].copy()
DrainCopy(data, bucket) == Put(data, Ip, bucket.m)

\* line 127 without the reset: the counter keeps its value
DrainReset_keep(v) == v

\* line 127: the value a nonzero stateless counter is set to, given the
\* value v it holds
DrainReset(v) == 0

\* table[routing_key][key] where present (0 where the key is missing)
ValueOf(table, rk, key) ==
  IF rk \in DOMAIN table /\ key \in DOMAIN table[rk].m THEN table[rk].m[key] ELSE 0

\* line 124 with the test always true: every counter goes to `del`
IsZero_always(v) == TRUE

\* the test of line 124 never true: no bucket is ever deleted
IsZero_never(v) == FALSE

\* line 124: the test that sends a counter to `del` (line 125)
IsZero(v) == v = 0

\* line 125: del table[routing_key]
DrainDelete(table, rk) == Del(table, rk)

\* an uncaught exception ends run()
Die ==
  /\ ppc' = "dead"
  /\ UNCHANGED <<pl, sent, nz, pfail, acc, fresh, quiet>>

\* the broker call wrapped in try/except, the loop going on with its next tick
OnBrokerError_retry == "L116"

\* lines 117, 129, 136: nothing in run() catches what pika raises, so the
\* exception leaves run() and the thread ends
OnBrokerError == "dead"

\* Steps that touch only the thread's own locals or the broker are taken
\* together with the neighbouring step that reads or writes a table.

\* lines 116-120: sleep, open the connection and the channel, then
\* monitoring_stateless_data.keys(), the list the loop runs over
PublishThread_117 ==
  /\ ppc = "L116"
  /\ ticks < MaxTicks
  /\ ticks' = ticks + 1
  /\ pl' = [pl EXCEPT !.rks = DOMAIN stateless]
  /\ ppc' = "L120n"
  /\ Track(pc, ppc')
  /\ UNCHANGED <<pc, raised, tmp, arg, cpc, sent, nz, pfail>>
  /\ UNCHANGED <<singletonVars, storeVars, controlVars, recordVars>>

\* the connection opened only after the stateless loop has gone through the
\* table: when it fails, every counter has been reset
ConnectFailed_drained(table) ==
  [rk \in DOMAIN table |->
     [id |-> table[rk].id, m |-> [mk \in DOMAIN table[rk].m |-> 0]]]

\* line 117 raises before line 120: the stateless loop has not begun, so
\* monitoring_stateless_data is as it was
ConnectFailed(table) == table

\* line 117: pika.BlockingConnection raises; run() ends
PublishThread_117_fail ==
  /\ ppc = "L116"
  /\ ticks < MaxTicks
  /\ ticks' = ticks + 1
  /\ stateless' = ConnectFailed(stateless)
  /\ pfail' = TRUE
  /\ ppc' = OnBrokerError
  /\ Track(pc, ppc')
  /\ UNCHANGED <<pc, raised, tmp, arg, cpc, pl, sent, nz, statefull, nextDict>>
  /\ UNCHANGED <<singletonVars, controlVars, recordVars>>

\* lines 120-121: the next routing key, and the copy of its bucket
PublishThread_121(rk) ==
  /\ ppc = "L120n"
  /\ rk \in pl.rks
  /\ IF HasRk(stateless, rk)
       THEN /\ pl' = [pl EXCEPT !.rks = @ \ {rk}, !.rk = rk,
                                !.data = DrainCopy(@, stateless[rk]),
                                !.expect = acc[rk], !.idle = quiet[rk],
                                !.src = [ph |-> "sl", rk |-> rk, m |-> stateless[rk].m]]
            /\ acc' = [acc EXCEPT ![rk] = [mk \in MetricKeys |-> 0]]
            /\ quiet' = [quiet EXCEPT ![rk] = TRUE]
            /\ fresh' = [fresh EXCEPT !["sl"][rk] = [mk \in MetricKeys |-> FALSE]]
            /\ ppc' = "L123"
            /\ UNCHANGED <<sent, nz, pfail>>
       ELSE Die
  /\ Track(pc, ppc')
  /\ UNCHANGED <<pc, raised, tmp, arg, cpc, ticks, calls, rec>>
  /\ UNCHANGED <<singletonVars, storeVars, controlVars>>

\* line 120: the list is exhausted and the stateless loop ends;
\* line 133: monitoring_statefull_data.keys()
PublishThread_133 ==
  /\ ppc = "L120n"
  /\ pl.rks = {}
  /\ pl' = [pl EXCEPT !.rks = DOMAIN statefull]
  /\ ppc' = "L133n"
  /\ Track(pc, ppc')
  /\ UNCHANGED <<pc, raised, tmp, arg, cpc, sent, ticks, nz, pfail>>
  /\ UNCHANGED <<singletonVars, storeVars, controlVars, recordVars>>

\* line 123: monitoring_stateless_data[routing_key].keys()
PublishThread_123 ==
  /\ ppc = "L123"
  /\ IF HasRk(stateless, pl.rk)
       THEN /\ pl' = [pl EXCEPT !.mks = DOMAIN stateless[pl.rk].m]
            /\ ppc' = "L123n"
            /\ UNCHANGED <<sent, nz, pfail, acc, fresh, quiet>>
       ELSE Die
  /\ Track(pc, ppc')
  /\ UNCHANGED <<pc, raised, tmp, arg, cpc, ticks, calls, rec>>
  /\ UNCHANGED <<singletonVars, storeVars, controlVars>>

\* lines 123-124: the next key, and the test `table[routing_key][key] == 0`
PublishThread_124(key) ==
  /\ ppc = "L123n"
  /\ key \in pl.mks
  /\ IF HasRk(stateless, pl.rk) /\ HasKey(stateless, pl.rk, key)
       THEN /\ pl' = [pl EXCEPT !.mks = @ \ {key}, !.key = key]
            /\ ppc' = IF IsZero(stateless[pl.rk].m[key]) THEN "L125" ELSE "L127"
            /\ UNCHANGED <<sent, nz, pfail, acc, fresh, quiet>>
       ELSE Die
  /\ Track(pc, ppc')
  /\ UNCHANGED <<pc, raised, tmp, arg, cpc, ticks, calls, rec>>
  /\ UNCHANGED <<singletonVars, storeVars, controlVars>>

\* line 125: del monitoring_stateless_data[routing_key]
PublishThread_125 ==
  /\ ppc = "L125"
  /\ IF HasRk(stateless, pl.rk)
       THEN /\ stateless' = DrainDelete(stateless, pl.rk)
            /\ ppc' = "L123n"
            /\ UNCHANGED <<pl, sent, nz, pfail, acc, fresh, quiet>>
       ELSE Die /\ UNCHANGED stateless
  /\ Track(pc, ppc')
  /\ UNCHANGED <<pc, raised, tmp, arg, cpc, ticks, calls, rec, statefull, nextDict>>
  /\ UNCHANGED <<singletonVars, controlVars>>

\* line 127: monitoring_stateless_data[routing_key][key] = 0
PublishThread_127 ==
  /\ ppc = "L127"
  /\ IF HasRk(stateless, pl.rk)
       THEN /\ stateless' = SetItem(stateless, pl.rk, pl.key,
                                       DrainReset(ValueOf(stateless, pl.rk, pl.key)))
            /\ ppc' = "L123n"
            /\ UNCHANGED <<pl, sent, nz, pfail, acc, fresh, quiet>>
       ELSE Die /\ UNCHANGED stateless
  /\ Track(pc, ppc')
  /\ UNCHANGED <<pc, raised, tmp, arg, cpc, ticks, calls, rec, statefull, nextDict>>
  /\ UNCHANGED <<singletonVars, controlVars>>

\* json.dumps(data), lines 131 / 138: the message body
Body(data) == data

\* every value of the bucket in data is nonzero, and there is one
AllNonzero(data) ==
  /\ Ip \in DOMAIN data
  /\ DOMAIN data[Ip] # {}
  /\ \A mk \in DOMAIN data[Ip] : data[Ip][mk] # 0

\* line 123: the key list is exhausted;
\* lines 129-131: basic_publish of the stateless bucket
PublishThread_129 ==
  /\ ppc = "L123n"
  /\ pl.mks = {}
  /\ sent' = Append(sent, [tick |-> ticks, ph |-> "sl", rk |-> pl.rk,
                           body |-> Body(pl.data), expect |-> pl.expect,
                           idle |-> pl.idle, src |-> pl.src])
  /\ nz' = [nz EXCEPT ![pl.rk] = IF AllNonzero(pl.data) THEN ticks ELSE 0]
  /\ ppc' = "L120n"
  /\ Track(pc, ppc')
  /\ UNCHANGED <<pc, raised, tmp, arg, cpc, pl, ticks, pfail>>
  /\ UNCHANGED <<singletonVars, storeVars, controlVars, recordVars>>

\* line 129: basic_publish raises; run() ends
PublishThread_129_fail ==
  /\ ppc = "L123n"
  /\ pl.mks = {}
  /\ pfail' = TRUE
  /\ ppc' = OnBrokerError
  /\ Track(pc, ppc')
  /\ UNCHANGED <<pc, raised, tmp, arg, cpc, pl, sent, ticks, nz>>
  /\ UNCHANGED <<singletonVars, storeVars, controlVars, recordVars>>

\* the stateful loop placed inside the stateless loop: after a stateful
\* message run() goes on with the stateless loop
AfterStatefulPublish_nested == "L120n"

\* lines 133-138: the body of the stateful loop ends at line 138, and the loop
\* goes on with its next routing key (line 133)
AfterStatefulPublish == "L133n"

\* lines 133-138: the next routing key, the copy of its bucket, and
\* basic_publish of the stateful bucket
PublishThread_134(rk) ==
  /\ ppc = "L133n"
  /\ rk \in pl.rks
  /\ IF HasRk(statefull, rk)
       THEN /\ pl' = [pl EXCEPT !.rks = @ \ {rk}, !.rk = rk,
                                !.data = DrainCopy(@, statefull[rk]),
                                !.expect = rec["sf"][rk], !.idle = FALSE,
                                !.src = [ph |-> "sf", rk |-> rk, m |-> statefull[rk].m]]
            /\ sent' = Append(sent, [tick |-> ticks, ph |-> "sf", rk |-> rk,
                                     body |-> Body(pl'.data), expect |-> pl'.expect,
                                     idle |-> FALSE, src |-> pl'.src])
            /\ ppc' = AfterStatefulPublish
            /\ UNCHANGED <<nz, pfail, acc, fresh, quiet>>
       ELSE Die
  /\ Track(pc, ppc')
  /\ UNCHANGED <<pc, raised, tmp, arg, cpc, ticks, calls, rec>>
  /\ UNCHANGED <<singletonVars, storeVars, controlVars>>

\* line 136: basic_publish raises after the copy of line 134; run() ends
PublishThread_136_fail(rk) ==
  /\ ppc = "L133n"
  /\ rk \in pl.rks
  /\ HasRk(statefull, rk)
  /\ pl' = [pl EXCEPT !.rks = @ \ {rk}, !.rk = rk,
                      !.data = DrainCopy(@, statefull[rk]),
                      !.expect = rec["sf"][rk], !.idle = FALSE,
                      !.src = [ph |-> "sf", rk |-> rk, m |-> statefull[rk].m]]
  /\ pfail' = TRUE
  /\ ppc' = OnBrokerError
  /\ Track(pc, ppc')
  /\ UNCHANGED <<pc, raised, tmp, arg, cpc, sent, ticks, nz>>
  /\ UNCHANGED <<singletonVars, storeVars, controlVars, recordVars>>

\* line 133: the list is exhausted; back to line 115-116 (sleep)
PublishThread_133_done ==
  /\ ppc = "L133n"
  /\ pl.rks = {}
  /\ pl' = [NoLocals EXCEPT !.data = pl.data]
  /\ ppc' = "L116"
  /\ Track(pc, ppc')
  /\ UNCHANGED <<pc, raised, tmp, arg, cpc, sent, ticks, nz, pfail>>
  /\ UNCHANGED <<singletonVars, storeVars, controlVars, recordVars>>

\* ------------------------------------------------------------ next state
SingletonStep == \E c \in Callers :
  Instance_35(c) \/ Instance_42(c) \/ Instance_42w(c) \/ Instance_43(c)

\* a record call begins, with its arguments drawn from the given sets
RecordCall(rks, keys, values) ==
  \E c \in Callers, rk \in rks, key \in keys, value \in values :
     publish_statefull_98(c, rk, key, value) \/ publish_stateless_106(c, rk, key, value)

\* a record call in progress takes its next step
RecordBody ==
  \E c \in Callers :
     \/ publish_statefull_99(c) \/ publish_statefull_100(c) \/ publish_statefull_101(c)
     \/ publish_statefull_103r(c) \/ publish_statefull_103w(c)
     \/ publish_stateless_107(c) \/ publish_stateless_108(c) \/ publish_stateless_109(c)
     \/ publish_stateless_111r(c) \/ publish_stateless_111w(c)

RecordStep == RecordCall(RoutingKeys, MetricKeys, Deltas) \/ RecordBody

\* a step of PublishThread.run with the broker answering
PublishStep ==
  \/ PublishThread_117
  \/ (\E rk \in RoutingKeys : PublishThread_121(rk))
  \/ PublishThread_123
  \/ (\E key \in MetricKeys : PublishThread_124(key))
  \/ PublishThread_125 \/ PublishThread_127
  \/ PublishThread_129 \/ PublishThread_133
  \/ (\E rk \in RoutingKeys : PublishThread_134(rk))
  \/ PublishThread_133_done

\* the broker refuses the connection or the message
PublishFail ==
  \/ PublishThread_117_fail
  \/ PublishThread_129_fail
  \/ (\E rk \in RoutingKeys : PublishThread_136_fail(rk))

ControlStep ==
  \/ (\E t \in Tables : ControlThread_159(t))
  \/ ControlThread_159_fail \/ ControlThread_159w

Next ==
  \/ SingletonStep
  \/ (\E c \in Callers : start_publish_thread(c) \/ start_control_thread(c) \/ get_metrics(c))
  \/ (\E c \in Callers, n \in Names : caller_edits_result(c, n))
  \/ RecordStep
  \/ PublishStep
  \/ PublishFail
  \/ ControlStep

Spec == Init /\ [][Next]_vars

\* The store and the publish loop on their own: every caller has obtained
\* object 1 from Instance() and PublishThread.start() has been called.
InitStore ==
  /\ instance = 1
  /\ constructed = 1
  /\ pc = [c \in Callers |-> "idle"]
  /\ held = [c \in Callers |-> 1]
  /\ arg = [c \in Callers |-> NoArg]
  /\ tmp = [c \in Callers |-> NoTmp]
  /\ raised = FALSE
  /\ got = [c \in Callers |-> [ret |-> EmptyMap, want |-> EmptyMap,
                              after |-> FALSE, ref |-> "none"]]
  /\ statefull = EmptyMap
  /\ stateless = EmptyMap
  /\ nextDict = 1
  /\ ppc = "L116"
  /\ pl = NoLocals
  /\ sent = <<>>
  /\ ticks = 0
  /\ cpc = "new"
  /\ metric_list = EmptyMap
  /\ fetchTmp = EmptyMap
  /\ calls = 0
  /\ fetched = {}
  /\ lastTick = EmptyMap
  /\ edits = 0
  /\ pfail = FALSE
  /\ cfail = FALSE
  /\ acc = Zeros
  /\ rec = [t \in {"sf", "sl"} |-> Zeros]
  /\ fresh = [t \in {"sf", "sl"} |-> NoneFresh]
  /\ recOverlap = FALSE
  /\ tickClean = TRUE
  /\ instRace = FALSE
  /\ nz = [rk \in RoutingKeys |-> 0]
  /\ quiet = [rk \in RoutingKeys |-> TRUE]

\* Threads interleave freely; the arguments come from smaller sets.
ConcKeys == {"a"}
ConcDeltas == {0, 1}
MaxConcCalls == 2

NextStore ==
  \/ (calls < MaxConcCalls /\ RecordCall(ConcKeys, MetricKeys, ConcDeltas))
  \/ RecordBody
  \/ PublishStep
  \/ PublishFail

SpecStore == InitStore /\ [][NextStore]_vars

\* The same operations when no two of them overlap: a record call runs from
\* its first step to its return, and a publish tick from line 117 back to
\* line 116, with no step of another operation in between.
Sequential == Active(pc, ppc) <= 1

NextSeq ==
  \/ RecordStep /\ Sequential'
  \/ PublishStep /\ Sequential'

SpecSeq == InitStore /\ [][NextSeq]_vars

\* The singleton, the control loop and get_metrics on their own.
NextControl ==
  \/ SingletonStep
  \/ (\E c \in Callers : start_control_thread(c) \/ get_metrics(c))
  \/ ControlStep

SpecControl == Init /\ [][NextControl]_vars

\* The control loop, get_metrics, and callers that change the mappings
\* get_metrics returned to them; every caller holds object 1.
NextAlias ==
  \/ (\E c \in Callers : start_control_thread(c) \/ get_metrics(c))
  \/ (\E c \in Callers, n \in Names : caller_edits_result(c, n))
  \/ ControlStep

SpecAlias == InitStore /\ [][NextAlias]_vars

\* Both loops running, either of which may fail, with callers recording one
\* counter of either table; the store always answers with the empty hash.  A
\* thread that has been started is scheduled again and again.
FailKeys == {"a"}
FailMetricKeys == {"x"}
FailDeltas == {1}
MaxFailCalls == 1

ControlFailStep ==
  ControlThread_159(EmptyMap) \/ ControlThread_159_fail \/ ControlThread_159w

NextFail ==
  \/ (calls < MaxFailCalls /\ RecordCall(FailKeys, FailMetricKeys, FailDeltas))
  \/ RecordBody
  \/ PublishStep
  \/ PublishFail
  \/ (\E c \in Callers : start_control_thread(c))
  \/ ControlFailStep

SpecFail ==
  /\ InitStore /\ [][NextFail]_vars
  /\ WF_vars(PublishStep \/ PublishFail)
  /\ WF_vars(ControlFailStep)

\* The process when no record call is ever made: both tables stay empty, so
\* a publish tick goes from line 117 through two empty loops back to line 116.
\* A thread whose start() has been called is scheduled again and again, and
\* so is a caller inside Instance(); a caller is not obliged to call anything.
InstanceBody ==
  \E c \in Callers : Instance_42(c) \/ Instance_42w(c) \/ Instance_43(c)

PublishIdleStep ==
  \/ PublishThread_117 \/ PublishThread_117_fail
  \/ PublishThread_133 \/ PublishThread_133_done

NextLive ==
  \/ SingletonStep
  \/ (\E c \in Callers : start_publish_thread(c) \/ start_control_thread(c))
  \/ ControlStep
  \/ PublishIdleStep

LiveSpec ==
  /\ Init /\ [][NextLive]_vars
  /\ WF_vars(InstanceBody)
  /\ WF_vars(ControlStep)
  /\ WF_vars(PublishIdleStep)

\* ------------------------------------------------------------------ claims
\* the stateless / stateful messages among those sent
Msgs(ph) == {i \in 1..Len(sent) : sent[i].ph = ph}

\* the metric map a message carries
Metrics(i) == sent[i].body[Ip]

RECURSIVE PublishedSum(_, _, _)
\* what the first n messages published for (rk, mk) from the stateless table
PublishedSum(n, rk, mk) ==
  IF n = 0 THEN 0
  ELSE PublishedSum(n - 1, rk, mk)
       + (IF sent[n].ph = "sl" /\ sent[n].rk = rk /\ mk \in DOMAIN Metrics(n)
            THEN Metrics(n)[mk] ELSE 0)

\* no operation is in progress: the publish loop sleeps, no call is running
Quiescent == ppc = "L116" /\ \A c \in Callers : pc[c] = "idle"

\* a step of PublishThread.run
TickStep == ppc' # ppc \/ pl' # pl

\* C1: when record calls and publish ticks do not overlap, every value a tick
\* publishes from the stateless table for (rk, mk) is the sum of the deltas
\* recorded for (rk, mk) since the bucket of rk was last copied by a tick, and
\* a metric key the message lacks has no delta recorded since then.
C1_StatelessPublishesSumSinceDrain ==
  \A i \in Msgs("sl") : \A mk \in MetricKeys :
     IF mk \in DOMAIN Metrics(i)
       THEN Metrics(i)[mk] = sent[i].expect[mk]
       ELSE sent[i].expect[mk] = 0

\* tick 1 published a nonzero value for a pair, two more deltas of 1 were
\* recorded, and tick 2 published their sum
C1_Witness ==
  \E i, j \in Msgs("sl") : \E mk \in MetricKeys :
     /\ sent[i].tick = 1 /\ sent[j].tick = 2 /\ sent[i].rk = sent[j].rk
     /\ mk \in DOMAIN Metrics(i) /\ mk \in DOMAIN Metrics(j)
     /\ Metrics(i)[mk] # 0
     /\ Metrics(j)[mk] = 2

\* C2: when record calls and publish ticks do not overlap, every value a tick
\* publishes from the stateful table for (rk, mk) is the sum of all deltas
\* ever recorded for (rk, mk); and no step of a tick changes the stateful table.
C2_StatefulPublishesTotal ==
  /\ [](\A i \in Msgs("sf") : \A mk \in MetricKeys :
          IF mk \in DOMAIN Metrics(i)
            THEN Metrics(i)[mk] = sent[i].expect[mk]
            ELSE sent[i].expect[mk] = 0)
  /\ [][TickStep => statefull' = statefull]_vars

\* tick 1 published 1 for a pair, one more delta of 1 was recorded, and tick 2
\* published 2
C2_Witness ==
  \E i, j \in Msgs("sf") : \E mk \in MetricKeys :
     /\ sent[i].tick = 1 /\ sent[j].tick = 2 /\ sent[i].rk = sent[j].rk
     /\ mk \in DOMAIN Metrics(i) /\ mk \in DOMAIN Metrics(j)
     /\ Metrics(i)[mk] = 1
     /\ Metrics(j)[mk] = 2

\* C3: no stateless delta is lost or counted twice, whatever a record call
\* overlaps with a tick: whenever the publish loop is between ticks and no
\* call is running, the deltas recorded for (rk, mk) are those the ticks have
\* published plus what the counter still holds.  (Runs in which two record
\* calls overlapped each other are left out.)
C3_NoDeltaLostOrDoubled ==
  (Quiescent /\ ~recOverlap) =>
     \A rk \in RoutingKeys, mk \in MetricKeys :
        rec["sl"][rk][mk] = PublishedSum(Len(sent), rk, mk) + ValueOf(stateless, rk, mk)

\* C4: every publish_statefull / publish_stateless call succeeds: none raises.
C4_RecordCallNeverRaises == ~raised

\* C5: when the inner loop of a tick has gone through a routing key's bucket
\* and no record call was in progress during the tick, each counter copied as
\* zero is absent from the stateless table and each counter copied as nonzero
\* is present with value zero.
C5_AfterDrainZeroAbsentNonzeroReset ==
  (ppc = "L123n" /\ pl.mks = {} /\ tickClean) =>
     \A mk \in DOMAIN pl.data[Ip] :
        IF pl.data[Ip][mk] = 0
          THEN ~(HasRk(stateless, pl.rk) /\ HasKey(stateless, pl.rk, mk))
          ELSE HasRk(stateless, pl.rk) /\ HasKey(stateless, pl.rk, mk)
               /\ stateless[pl.rk].m[mk] = 0

\* the previous tick published rk's bucket with only nonzero values, and no
\* step of a publish_stateless(rk) call has run since that bucket was copied
NonzeroThenIdle(rk) == nz[rk] > 0 /\ nz[rk] = ticks /\ quiet[rk]

\* the step that takes a tick's list of stateless routing keys (line 120)
SnapshotStep == ppc = "L116" /\ ppc' = "L120n"

FetchPerformed == cpc \in {"L159w", "dead"} \/ fetched # {}

\* the publish loop has begun a tick at least once
TickPerformed == ticks > 0

\* C7 as claimed: once the object is constructed, with nothing more asked of
\* the caller, a fetch and a publish tick eventually happen.
C7_ConstructionStartsLoops ==
  (constructed > 0) ~> (FetchPerformed /\ TickPerformed)

\* C7 amended: the step that constructs the object leaves both threads
\* created and not started; a thread that is not started fetches nothing and
\* publishes nothing; and once start() has been called on a thread, its loop
\* eventually calls hgetall, respectively begins a publish tick.
C7_LoopsRunOnceStarted ==
  /\ [][(constructed = 0 /\ constructed' = 1) => (ppc' = "new" /\ cpc' = "new")]_vars
  /\ [](ppc \in {"none", "new"} => ~TickPerformed /\ sent = <<>>)
  /\ [](cpc \in {"none", "new"} => ~FetchPerformed /\ metric_list = EmptyMap)
  /\ (cpc = "L159") ~> FetchPerformed
  /\ (ppc = "L116") ~> TickPerformed

\* the object is constructed, the publish thread was started and has begun a
\* tick, and the control thread, never started, has fetched nothing
C7_Witness ==
  /\ constructed = 1 /\ instance = 1
  /\ TickPerformed /\ ppc # "new"
  /\ cpc = "new" /\ ~FetchPerformed

\* C8 as claimed: under every interleaving the class is constructed at most
\* once, exactly once when a call has returned, and all calls that have
\* returned hold the same instance.
C8_ConstructedOnceSameInstance ==
  /\ constructed <= 1
  /\ \A c, d \in Callers : (held[c] # 0 /\ held[d] # 0) => held[c] = held[d]
  /\ (\E c \in Callers : held[c] # 0) => constructed = 1

\* C8 amended: the same, in the runs in which no two calls that found no
\* instance (lines 39-43) were in progress at the same time.
C8_OnceWhenFirstCallsDoNotOverlap ==
  ~instRace =>
     /\ constructed <= 1
     /\ \A c \in Callers : held[c] \in {0, 1}
     /\ (\E c \in Callers : held[c] # 0) => (constructed = 1 /\ instance = 1)

\* a first call and a later call have both returned, one after the other,
\* with one object constructed and both holding it
C8_Witness ==
  /\ ~instRace
  /\ constructed = 1
  /\ \A c \in Callers : held[c] = 1 /\ pc[c] = "idle"

\* C9: whatever a get_metrics call overlaps with, the table it returns is the
\* empty initial table or the table one hgetall call returned, whole.
C9_ReturnsInitialOrOneFetch ==
  \A c \in Callers : got[c].ret \in {EmptyMap} \cup fetched

\* get_metrics returned a non-empty fetched table, after a fetch of another
\* non-empty table, while the next fetch was waiting to be assigned
C9_Witness ==
  \E c \in Callers :
     /\ got[c].ret # EmptyMap /\ got[c].ret \in fetched
     /\ \E t \in fetched : t # EmptyMap /\ t # got[c].ret /\ t # fetchTmp
     /\ cpc = "L159w" /\ fetchTmp # got[c].ret

\* the step that ends a control tick: the assignment of line 159
TickCompletes == cpc = "L159w" /\ cpc' = "L159"

\* C10: metric_list is the empty table at first and changes only when a
\* control tick completes, to exactly the hash that tick fetched; and what
\* get_metrics returned is the hash of the latest tick completed at the time
\* of the call (the empty table when none had).
C10_ReturnsLatestFetchVerbatim ==
  /\ [][metric_list' # metric_list => TickCompletes]_vars
  /\ [][TickCompletes => metric_list' = fetchTmp]_vars
  /\ [](cpc \in {"none", "new"} => get_metrics_result = EmptyMap)
  /\ [](\A c \in Callers : got[c].ret = got[c].want)

\* every fetch so far was assigned, an earlier one held a name the latest
\* lacks, and get_metrics returned the latest, without that name
C10_Witness ==
  \E c \in Callers :
     /\ cpc = "L159" /\ got[c].ret = lastTick /\ got[c].ret # EmptyMap
     /\ \E t \in fetched : \E n \in DOMAIN t : n \notin DOMAIN got[c].ret

\* the step in which hgetall raises
FetchFails == cpc = "L159" /\ cpc' = "dead"

\* C11: the step in which hgetall raises leaves metric_list as it was; from
\* then on metric_list is the table of the last fetch that succeeded and never
\* changes; and every get_metrics call made after the failure returned that
\* table.
C11_FailedFetchKeepsLastTable ==
  /\ [][FetchFails => metric_list' = metric_list]_vars
  /\ [][cpc = "dead" => (cpc' = "dead" /\ metric_list' = metric_list)]_vars
  /\ [](cpc = "dead" => get_metrics_result = lastTick)
  /\ [](\A c \in Callers : got[c].after => (cpc = "dead" /\ got[c].ret = lastTick))

\* a fetch succeeded with a non-empty table, a later one failed, and a
\* get_metrics call made after the failure returned the non-empty table
C11_Witness ==
  \E c \in Callers :
     /\ cpc = "dead" /\ lastTick # EmptyMap
     /\ got[c].after /\ got[c].ret = lastTick

\* C12: a step in which a caller changes a mapping get_metrics returned to it
\* leaves metric_list unchanged, and what get_metrics returns is still the
\* table of the latest completed control tick.
C12_ReturnedMappingIsACopy ==
  /\ [][edits' # edits => metric_list' = metric_list]_vars
  /\ [](\A c \in Callers : got[c].ret = got[c].want)

\* C13: among the messages of one tick, in the order they were handed to
\* basic_publish, no message built from the stateless table comes after a
\* message built from the stateful table.
C13_StatelessBeforeStateful ==
  \A i, j \in 1..Len(sent) :
     (i < j /\ sent[i].tick = sent[j].tick /\ sent[i].ph = "sf") => sent[j].ph = "sf"

\* one tick has published three messages, the first from the stateless table
\* and the last from the stateful table
C13_Witness ==
  \E i, j, k \in 1..Len(sent) :
     /\ i < j /\ j < k
     /\ sent[i].tick = sent[j].tick /\ sent[j].tick = sent[k].tick
     /\ sent[i].ph = "sl" /\ sent[k].ph = "sf"

\* C14: once a broker call has raised, PublishThread.run has ended; once
\* hgetall has raised, ControlThread.run has ended; a loop that has ended
\* stays ended, begins no tick, publishes nothing and fetches nothing; the
\* step in which one loop fails leaves the other loop where it was; and the
\* other loop goes on: with the publish loop ended the control loop still
\* reaches its next hgetall, and with the control loop ended the publish loop
\* still begins its next tick.
C14_FailureEndsOnlyItsLoop ==
  /\ [](pfail => ppc = "dead")
  /\ [](cfail => cpc = "dead")
  /\ [][ppc = "dead" => (ppc' = "dead" /\ ticks' = ticks /\ sent' = sent)]_vars
  /\ [][cpc = "dead" => (cpc' = "dead" /\ fetched' = fetched)]_vars
  /\ [][pfail' # pfail => cpc' = cpc]_vars
  /\ [][cfail' # cfail => ppc' = ppc]_vars
  /\ (pfail /\ cpc = "L159w") ~> (cpc = "L159")
  /\ (pfail /\ cpc = "L159") ~> (cpc # "L159")
  /\ \A k \in 0..(MaxTicks - 1) :
        (cfail /\ ppc = "L116" /\ ticks = k) ~> (ticks > k)

\* the publish loop has failed in its first tick, and the control loop has
\* completed a fetch since
C14_Witness ==
  /\ pfail /\ ppc = "dead" /\ ticks = 1
  /\ ~cfail /\ cpc = "L159" /\ fetched # {}

\* C15: every message handed to basic_publish has a body with exactly one
\* top-level key, the sender identity, and the value under it is the content
\* that the bucket of the message's routing key, in the table of the message's
\* phase, had when the loop copied it.
C15_BodyIsOneBucketUnderSenderIdentity ==
  \A i \in 1..Len(sent) :
     /\ DOMAIN sent[i].body = {Ip}
     /\ sent[i].src.ph = sent[i].ph
     /\ sent[i].src.rk = sent[i].rk
     /\ Metrics(i) = sent[i].src.m

\* one tick has published a stateless and then a stateful message whose
\* metric maps differ in their keys
C15_Witness ==
  \E i, j \in 1..Len(sent) :
     /\ i < j /\ sent[i].tick = sent[j].tick
     /\ sent[i].ph = "sl" /\ sent[j].ph = "sf"
     /\ DOMAIN Metrics(i) # {} /\ DOMAIN Metrics(j) # {}
     /\ DOMAIN Metrics(i) # DOMAIN Metrics(j)

\* the stateless messages published for routing key rk
MsgsOf(rk) == {i \in Msgs("sl") : sent[i].rk = rk}

\* the last stateless message for rk carried mk with a nonzero value
LastPublishedNonzero(rk, mk) ==
  /\ MsgsOf(rk) # {}
  /\ LET j == CHOOSE i \in MsgsOf(rk) : \A k \in MsgsOf(rk) : k <= i
     IN mk \in DOMAIN Metrics(j) /\ Metrics(j)[mk] # 0

\* every metric key present in the stateful table has had a delta stored
StatefulKeysFresh ==
  \A rk \in DOMAIN statefull : \A mk \in DOMAIN statefull[rk].m : fresh["sf"][rk][mk]

CallsReturned == \A c \in Callers : pc[c] = "idle"

\* C17: whatever record calls overlapped, once all have returned and none has
\* raised, every stateful counter holds the sum of all deltas recorded for its
\* pair (an absent counter counting as 0).
C17_StatefulCounterIsSumOfDeltas ==
  (CallsReturned /\ ~raised) =>
     \A rk \in RoutingKeys, mk \in MetricKeys :
        ValueOf(statefull, rk, mk) = rec["sf"][rk][mk]

\* the counter of (rk, mk) in a table: its value, or "absent"
Counter(table, rk, mk) ==
  IF HasRk(table, rk) /\ HasKey(table, rk, mk) THEN <<table[rk].m[mk]>> ELSE <<>>

\* table and after differ at most in the counter of (rk, mk)
OnlyCounterChanged(table, after, rk, mk) ==
  \A r \in RoutingKeys, k \in MetricKeys :
     (r # rk \/ k # mk) => Counter(after, r, k) = Counter(table, r, k)

StatefulPcs == {"sf99", "sf100", "sf101", "sf103r", "sf103w"}
StatelessPcs == {"sl107", "sl108", "sl109", "sl111r", "sl111w"}

\* C18: every step of a publish_statefull(rk, mk) call leaves the stateless
\* table, metric_list and every stateful counter other than (rk, mk) as
\* they were; likewise every step of a publish_stateless call, with the tables
\* exchanged.
C18_RecordCallChangesOnlyItsCounter ==
  [][\A c \in Callers :
        /\ (pc[c] \in StatefulPcs /\ pc'[c] # pc[c]) =>
              /\ stateless' = stateless
              /\ metric_list' = metric_list
              /\ OnlyCounterChanged(statefull, statefull', arg[c].rk, arg[c].key)
        /\ (pc[c] \in StatelessPcs /\ pc'[c] # pc[c]) =>
              /\ statefull' = statefull
              /\ metric_list' = metric_list
              /\ OnlyCounterChanged(stateless, stateless', arg[c].rk, arg[c].key)]_vars

\* the step in which the record call of caller c raises: the call ends at a
\* position other than the store half of +=
Raises(c) ==
  /\ pc[c] \in RecordPcs \ {"sf103w", "sl111w"}
  /\ pc'[c] = "idle"

\* C19: when record calls and ticks do not overlap, the step in which a
\* record call raises leaves both tables as they were when the call was made.
C19_RaisingCallLeavesTablesAsBefore ==
  [][\A c \in Callers :
        Raises(c) => (statefull' = arg[c].pre[1] /\ stateless' = arg[c].pre[2])]_vars

\* a record call has raised while each table held a counter, and these are
\* still there
C19_Witness ==
  /\ raised /\ CallsReturned
  /\ \E rk \in DOMAIN statefull : DOMAIN statefull[rk].m # {}
  /\ \E rk \in DOMAIN stateless : DOMAIN stateless[rk].m # {}

\* the step in which opening the connection fails (line 117)
ConnectFails == ppc = "L116" /\ ~pfail /\ pfail'

\* C20: the step in which opening the broker connection fails changes neither
\* table and publishes nothing; the tick consists of that step alone, as the
\* loop has ended.
C20_FailedConnectChangesNothing ==
  /\ [][ConnectFails =>
          (stateless' = stateless /\ statefull' = statefull /\ sent' = sent)]_vars
  /\ [][ConnectFails => ppc' = "dead"]_vars

\* the connection failed at the start of a tick while a stateless counter
\* was nonzero, and the counter is still there
C20_Witness ==
  /\ pfail /\ ppc = "dead" /\ pl.rk = ""
  /\ \E rk \in DOMAIN stateless : \E mk \in DOMAIN stateless[rk].m :
        stateless[rk].m[mk] # 0

====

